---- MODULE Spec2Model ----
(***************************************************************************)
(* Model of src/auth_server.py: a Flask relay with three handlers          *)
(* (health, exchange_token, logout) that forwards an OAuth authorization   *)
(* code to the provider's token endpoint and optionally enriches the       *)
(* result with a userinfo lookup.                                          *)
(*                                                                         *)
(* Each handler invocation is a request slot r \in Reqs.  A handler runs   *)
(* atomically between its blocking network calls, so exchange_token is     *)
(* three steps: TokenBegin (lines 69-97, up to the POST), TokenReply       *)
(* (lines 97-109, from the POST's outcome up to the GET) and UserinfoReply *)
(* (lines 109-124).  Steps of different slots interleave freely.           *)
(***************************************************************************)
EXTENDS Integers, Sequences, FiniteSets, TLC

\* Number of handler invocations that may be in flight together.
NumReqs == 2

Reqs == 1..NumReqs

(***************************************************************************)
(* JSON / Python values.  Every value is a record [kind, s, m]: s is the   *)
(* text of a scalar, m the entries <<key, value>> of a dict or list (a     *)
(* list's keys are its indices).  kind "fstr" is an f-string: s is the     *)
(* template and m its formatted arguments.                                 *)
(***************************************************************************)
Str(x)   == [kind |-> "str",  s |-> x,  m |-> {}]
IntV(x)  == [kind |-> "int",  s |-> x,  m |-> {}]
BoolV(x) == [kind |-> "bool", s |-> x,  m |-> {}]
None     == [kind |-> "none", s |-> "", m |-> {}]
Dict(es) == [kind |-> "dict", s |-> "", m |-> es]
List(es) == [kind |-> "list", s |-> "", m |-> es]
FStr(t, es) == [kind |-> "fstr", s |-> t, m |-> es]
\* Text that json.loads rejects (an empty body included).
Malformed == [kind |-> "malformed", s |-> "", m |-> {}]
\* A local that has not been assigned.
Unset    == [kind |-> "unset", s |-> "", m |-> {}]

\* Python truthiness, as `not data`, all([...]) and `if return_to` use it.
Truthy(v) ==
    CASE v.kind = "none" -> FALSE
      [] v.kind = "str"  -> v.s # ""
      [] v.kind = "int"  -> v.s # "0"
      [] v.kind = "bool" -> v.s = "true"
      [] v.kind \in {"dict", "list"} -> v.m # {}
      [] OTHER -> TRUE

\* Only a dict has a .get method; on anything else .get raises AttributeError.
HasGet(v) == v.kind = "dict"

HasKey(v, k) == \E e \in v.m : e[1] = k

\* dict.get(k, default)
Get(v, k, default) ==
    IF HasKey(v, k) THEN (CHOOSE e \in v.m : e[1] = k)[2] ELSE default

\* `k in v` is defined for dict (key), list (element) and str (substring; the
\* strings of the model are atoms, so containment is equality).
InDefined(v) == v.kind \in {"dict", "list", "str"}

In(k, v) ==
    CASE v.kind = "dict" -> HasKey(v, k)
      [] v.kind = "list" -> \E e \in v.m : e[2] = Str(k)
      [] v.kind = "str"  -> v.s = k
      [] OTHER -> FALSE

(***************************************************************************)
(* Text of exceptions, str(e).                                             *)
(***************************************************************************)
StatusText(n) ==
    CASE n = 200 -> "200"
      [] n = 400 -> "400"
      [] n = 401 -> "401"
      [] n = 500 -> "500"
      [] OTHER   -> "0"

\* werkzeug's HTTPException raised by request.get_json().
BadBodyText   == Str("400 Bad Request: Failed to decode JSON object")
AttrErrorText == Str("object has no attribute 'get'")
TypeErrorText == Str("argument is not iterable")
JsonErrorText == Str("Expecting value: line 1 column 1 (char 0)")

\* requests.HTTPError raised by raise_for_status(): status and URL, no body.
HTTPErrorText(status, url) ==
    FStr("{0} Client Error for url: {1}",
         {<<"0", IntV(StatusText(status))>>, <<"1", url>>})

\* requests.ConnectionError / Timeout: names the host, never the JSON body.
ConnErrorText(domain) ==
    FStr("HTTPSConnectionPool(host='{0}', port=443): Max retries exceeded with url: /oauth/token",
         {<<"0", domain>>})

(***************************************************************************)
(* Inputs: inbound request bodies and the provider's replies.              *)
(***************************************************************************)
\* A key that is absent, or present with one of the texts of vals.
KeyOpts(k, vals) == {{}} \cup {{<<k, Str(x)>>} : x \in vals}

\* The authorization code of invocation r: the provider issues each code once,
\* so concurrent exchanges carry distinct codes.
AuthCode(r) ==
    CASE r = 1 -> "c1"
      [] r = 2 -> "c2"
      [] r = 3 -> "c3"
      [] OTHER -> "cN"

\* JSON objects sent to /api/auth/token by invocation r: each required field
\* absent, empty or set ({} is the object with all three absent).
TokenReqDicts(r) ==
    {Dict(a \cup b \cup c) :
        a \in KeyOpts("code", {"", AuthCode(r)}),
        b \in KeyOpts("code_verifier", {"", "v"}),
        c \in KeyOpts("redirect_uri", {"v"})}

\* Parsed JSON that is not one of those objects: an object with another key
\* only, a non-empty and an empty array.
OtherJson ==
    {Dict({<<"other", Str("x")>>}), List({<<"0", Str("x")>>}), List({})}

LogoutReqDicts == {Dict(a) : a \in KeyOpts("return_to", {"", "X"})}

\* What arrives on the wire: whether the Content-Type is JSON, and the body as
\* json.loads would read it.
Inbound(mime, payload) == [json_mime |-> mime, payload |-> payload]
NoInbound == Inbound(FALSE, Unset)

TokenInbounds(r) ==
    {Inbound(FALSE, Malformed)}
      \cup {Inbound(TRUE, p) : p \in {Malformed} \cup TokenReqDicts(r) \cup OtherJson}

LogoutInbounds ==
    {Inbound(FALSE, Malformed)}
      \cup {Inbound(TRUE, p) : p \in {Malformed} \cup LogoutReqDicts \cup OtherJson}

\* A provider reply: the transport failed (net = "error"), or a status and a body.
Reply(net, status, payload) == [net |-> net, status |-> status, payload |-> payload]
NoReply == Reply("none", 0, Unset)

\* Token payloads that are objects: with and without access_token, with and
\* without token_type, with and without the remaining fields.
TokenPayloadDicts ==
    {Dict({}),
     Dict({<<"token_type", Str("DPoP")>>, <<"expires_in", IntV("86400")>>,
           <<"id_token", Str("idt")>>}),
     Dict({<<"access_token", Str("at1")>>}),
     Dict({<<"access_token", Str("at1")>>, <<"expires_in", IntV("86400")>>,
           <<"id_token", Str("idt")>>}),
     Dict({<<"access_token", Str("at2")>>, <<"token_type", Str("DPoP")>>,
           <<"expires_in", IntV("86400")>>, <<"id_token", Str("idt")>>})}

TokenPayloads ==
    TokenPayloadDicts
      \cup {Malformed, None,
            List({<<"0", Str("access_token")>>}), List({<<"0", Str("x")>>})}

ProviderErrorBody == Dict({<<"error", Str("invalid_grant")>>})

TokenReplies ==
    {Reply("error", 0, Unset)}
      \cup {Reply("ok", st, ProviderErrorBody) : st \in {400, 401}}
      \cup {Reply("ok", 200, p) : p \in TokenPayloads}

UserinfoPayloads ==
    {Malformed, List({<<"0", Str("x")>>}),
     Dict({<<"email", Str("u@example.com")>>})}

UserinfoReplies ==
    {Reply("error", 0, Unset), Reply("ok", 401, ProviderErrorBody)}
      \cup {Reply("ok", 200, p) : p \in UserinfoPayloads}

(***************************************************************************)
(* State.                                                                  *)
(***************************************************************************)
VARIABLES
    config,   \* AUTH0_DOMAIN, AUTH0_CLIENT_ID, AUTH0_CLIENT_SECRET (module globals)
    lib,      \* behaviour of the installed Flask / requests, fixed per process
    req       \* per handler invocation: its locals, its I/O and its response

vars == <<config, lib, req>>

AUTH0_DOMAIN        == Str("tenant.auth0.com")
AUTH0_CLIENT_ID     == Str("client-id")
AUTH0_CLIENT_SECRET == Str("client-secret")

NoResp == [status |-> 0, json |-> Unset]

IdleReq ==
    [pc |-> "idle", endpoint |-> "none", inbound |-> NoInbound,
     token_reply |-> NoReply, userinfo_reply |-> NoReply,
     token_data |-> Unset, user_info |-> Unset,
     resp |-> NoResp, errclass |-> "none", calls |-> <<>>, log |-> <<>>]

Init ==
    /\ config = [domain |-> AUTH0_DOMAIN, client_id |-> AUTH0_CLIENT_ID,
                 client_secret |-> AUTH0_CLIENT_SECRET]
    /\ lib \in [nonjson_raises : BOOLEAN, json_error_is_request_exc : BOOLEAN]
    /\ req = [r \in Reqs |-> IdleReq]

(***************************************************************************)
(* Helpers shared by the handlers.                                         *)
(***************************************************************************)
\* jsonify({...}), status
JsonResp(status, entries) == [status |-> status, json |-> Dict(entries)]

\* The handler returns: its response, the error class of the branch that
\* produced it ("none" on success) and the log lines it wrote on the way.
Done(rq, resp, cls, lines) ==
    [rq EXCEPT !.pc = "done", !.resp = resp, !.errclass = cls, !.log = @ \o lines]

\* request.get_json() with its default arguments.  A body that json.loads
\* rejects raises werkzeug's BadRequest.  A request whose Content-Type is not
\* JSON yields None before Flask 2.1 and raises from 2.1 on (lib.nonjson_raises).
GetJson(inb) ==
    IF ~inb.json_mime
    THEN [raised |-> lib.nonjson_raises, value |-> None]
    ELSE IF inb.payload = Malformed
         THEN [raised |-> TRUE, value |-> None]
         ELSE [raised |-> FALSE, value |-> inb.payload]

ErrNoJson    == Str("No se envio JSON")
ErrMissing   == Str("Falta parametro")
ErrUpstream  == Str("Error contactando Auth0")
ErrInternal  == Str("Error interno del servidor")
RequiredList ==
    List({<<"0", Str("code")>>, <<"1", Str("code_verifier")>>,
          <<"2", Str("redirect_uri")>>})

\* Mutant of UpstreamDetails: the diagnostic also dumps the request that failed.
UpstreamDetailsWithRequest(text) ==
    FStr("{0} (request body: {1})", {<<"0", text>>, <<"1", config.client_secret>>})

\* "details": str(e)  (line 130)
UpstreamDetails(text) == text

\* Mutant of UpstreamError: the upstream failure is answered 502 Bad Gateway.
UpstreamErrorBadGateway(rq, text) ==
    Done(rq,
         JsonResp(502, {<<"error", Str("Error contactando Auth0")>>,
                        <<"details", UpstreamDetails(text)>>}),
         "UpstreamError", <<"error:upstream">>)

\* except requests.exceptions.RequestException as e  (lines 126-131)
UpstreamError(rq, text) ==
    Done(rq,
         JsonResp(500, {<<"error", ErrUpstream>>, <<"details", UpstreamDetails(text)>>}),
         "UpstreamError", <<"error:upstream">>)

\* except Exception as e  (lines 133-138)
InternalError(rq, text) ==
    Done(rq,
         JsonResp(500, {<<"error", ErrInternal>>, <<"details", text>>}),
         "InternalError", <<"error:internal">>)

TokenUrl    == FStr("https://{0}/oauth/token", {<<"0", config.domain>>})
UserinfoUrl == FStr("https://{0}/userinfo", {<<"0", config.domain>>})

\* An outbound HTTP call as the network sees it.
Call(method, url, json, auth) ==
    [method |-> method, url |-> url, json |-> json, auth |-> auth]

(***************************************************************************)
(* health  (lines 41-44)                                                   *)
(***************************************************************************)
HealthResp ==
    JsonResp(200, {<<"status", Str("ok")>>,
                   <<"message", Str("RTool Auth Server activo")>>})

Health(r) ==
    /\ req[r].pc = "idle"
    /\ req' = [req EXCEPT ![r] = Done([@ EXCEPT !.endpoint = "health"],
                                      HealthResp, "none", <<>>)]
    /\ UNCHANGED <<config, lib>>

(***************************************************************************)
(* exchange_token  (lines 47-138)                                          *)
(***************************************************************************)
\* Mutant of AllPresent: only the code is validated.
AllPresentCodeOnly(data) == Truthy(Get(data, "code", None))

\* if not all([code, code_verifier, redirect_uri])  (line 78)
AllPresent(data) ==
    /\ Truthy(Get(data, "code", None))
    /\ Truthy(Get(data, "code_verifier", None))
    /\ Truthy(Get(data, "redirect_uri", None))

\* payload of the token request  (lines 87-94)
TokenPayload(data) ==
    Dict({<<"client_id", config.client_id>>,
          <<"client_secret", config.client_secret>>,
          <<"code", Get(data, "code", None)>>,
          <<"grant_type", Str("authorization_code")>>,
          <<"redirect_uri", Get(data, "redirect_uri", None)>>,
          <<"code_verifier", Get(data, "code_verifier", None)>>})

\* Lines 69-97: from get_json() to the blocking requests.post().
ExchangeBegin(rq) ==
    LET j    == GetJson(rq.inbound)
        data == j.value
    IN  IF j.raised THEN InternalError(rq, BadBodyText)
        ELSE IF ~Truthy(data)
        THEN Done(rq, JsonResp(400, {<<"error", ErrNoJson>>}), "BadRequest", <<>>)
        ELSE IF ~HasGet(data) THEN InternalError(rq, AttrErrorText)
        ELSE IF ~AllPresent(data)
        THEN Done(rq, JsonResp(400, {<<"error", ErrMissing>>,
                                     <<"required", RequiredList>>}),
                  "BadRequest", <<>>)
        ELSE [rq EXCEPT !.pc = "await_token",
                        !.calls = Append(@, Call("POST", TokenUrl,
                                                 TokenPayload(data), Unset)),
                        !.log = Append(@, "info:exchanging")]

TokenBegin(r) ==
    /\ req[r].pc = "idle"
    /\ \E inb \in TokenInbounds(r) :
          req' = [req EXCEPT ![r] =
                     ExchangeBegin([@ EXCEPT !.endpoint = "token", !.inbound = inb])]
    /\ UNCHANGED <<config, lib>>

\* Mutant of TokenType: the provider's token_type is ignored.
TokenTypeAlwaysBearer(td) == Str("Bearer")

\* token_data.get("token_type", "Bearer")  (line 120)
TokenType(td) == Get(td, "token_type", Str("Bearer"))

\* The success payload  (lines 117-124)
SuccessEntries(td, ui) ==
    {<<"success", BoolV("true")>>,
     <<"access_token", Get(td, "access_token", None)>>,
     <<"token_type", TokenType(td)>>,
     <<"expires_in", Get(td, "expires_in", None)>>,
     <<"id_token", Get(td, "id_token", None)>>,
     <<"user_info", ui>>}

\* Lines 117-124 run on token_data td and user_info ui; td.get raises
\* AttributeError when the provider's payload is not an object.
Respond(rq, td, ui, lines) ==
    IF ~HasGet(td)
    THEN InternalError([rq EXCEPT !.log = @ \o lines], AttrErrorText)
    ELSE Done(rq, JsonResp(200, SuccessEntries(td, ui)), "none", lines)

\* Mutant of RaisesForStatus: only server errors raise.
RaisesForServerErrorsOnly(status) == status >= 500 /\ status < 600

\* response.raise_for_status()  (line 98): raises for 400 <= status < 600.
RaisesForStatus(status) == status >= 400 /\ status < 600

\* Lines 97-109: from the outcome of requests.post() to the blocking
\* requests.get(), or to the response when no lookup is made.
ExchangeOnTokenReply(rq, rep) ==
    LET td == rep.payload
        r1 == [rq EXCEPT !.token_reply = rep]
    IN  IF rep.net = "error" THEN UpstreamError(r1, ConnErrorText(config.domain))
        ELSE IF RaisesForStatus(rep.status)
        THEN UpstreamError(r1, HTTPErrorText(rep.status, TokenUrl))
        ELSE IF td = Malformed
        THEN \* response.json() raises JSONDecodeError: a RequestException from
             \* requests 2.27 on, a plain ValueError before.
             IF lib.json_error_is_request_exc
             THEN UpstreamError(r1, JsonErrorText)
             ELSE InternalError(r1, JsonErrorText)
        ELSE LET r2 == [r1 EXCEPT !.token_data = td, !.user_info = Dict({}),
                                  !.log = Append(@, "info:token_ok")]
             IN  IF ~InDefined(td) THEN InternalError(r2, TypeErrorText)
                 ELSE IF ~In("access_token", td)
                 THEN Respond(r2, td, Dict({}), <<>>)
                 ELSE IF td.kind # "dict"
                 THEN \* token_data['access_token'] raises TypeError inside the
                      \* inner try: caught at line 113, no GET is made.
                      Respond(r2, td, Dict({}), <<"warning:userinfo">>)
                 ELSE [r2 EXCEPT !.pc = "await_userinfo",
                                 !.calls = Append(@,
                                     Call("GET", UserinfoUrl, Unset,
                                          FStr("Bearer {0}",
                                               {<<"0", Get(td, "access_token", None)>>})))]

TokenReply(r) ==
    /\ req[r].pc = "await_token"
    /\ \E rep \in TokenReplies :
          req' = [req EXCEPT ![r] = ExchangeOnTokenReply(@, rep)]
    /\ UNCHANGED <<config, lib>>

\* user_info after lines 109-114: assigned at line 111 when the status is 200
\* and the body parses; an exception raised afterwards (line 112's .get on a
\* value that is no dict) is caught without undoing the assignment.
UserInfoAfter(rep) ==
    IF rep.net = "ok" /\ rep.status = 200 /\ rep.payload # Malformed
    THEN rep.payload
    ELSE Dict({})

\* Whether the inner try block raised (line 113 logs a warning).
LookupRaised(rep) ==
    \/ rep.net = "error"
    \/ rep.status = 200 /\ (rep.payload = Malformed \/ ~HasGet(rep.payload))

\* Mutant of TokenDataOf: token_data is a module-level global, so a handler
\* reads what another invocation stored there.
TokenDataShared(r) ==
    IF \E o \in Reqs \ {r} : req[o].token_data # Unset
    THEN req[CHOOSE o \in Reqs \ {r} : req[o].token_data # Unset].token_data
    ELSE req[r].token_data

\* token_data as the handler invocation r sees it: a local of that invocation.
TokenDataOf(r) == req[r].token_data

\* Lines 109-124: from the outcome of requests.get() to the response.
ExchangeOnUserinfoReply(r, rep) ==
    LET ui == UserInfoAfter(rep)
        r1 == [req[r] EXCEPT !.userinfo_reply = rep, !.user_info = ui]
    IN  Respond(r1, TokenDataOf(r), ui,
                IF LookupRaised(rep) THEN <<"warning:userinfo">>
                ELSE IF rep.status = 200 THEN <<"info:user">> ELSE <<>>)

UserinfoReply(r) ==
    /\ req[r].pc = "await_userinfo"
    /\ \E rep \in UserinfoReplies :
          req' = [req EXCEPT ![r] = ExchangeOnUserinfoReply(r, rep)]
    /\ UNCHANGED <<config, lib>>

(***************************************************************************)
(* logout  (lines 141-161)                                                 *)
(***************************************************************************)
LogoutUrl(return_to) ==
    IF Truthy(return_to)
    THEN FStr("https://{0}/v2/logout?client_id={1}&returnTo={2}",
              {<<"0", config.domain>>, <<"1", config.client_id>>,
               <<"2", return_to>>})
    ELSE FStr("https://{0}/v2/logout?client_id={1}",
              {<<"0", config.domain>>, <<"1", config.client_id>>})

LogoutError(rq, text) ==
    Done(rq, JsonResp(500, {<<"error", text>>}), "InternalError", <<"error:logout">>)

LogoutHandler(rq) ==
    LET j    == GetJson(rq.inbound)
        data == IF Truthy(j.value) THEN j.value ELSE Dict({})
    IN  IF j.raised THEN LogoutError(rq, BadBodyText)
        ELSE IF ~HasGet(data) THEN LogoutError(rq, AttrErrorText)
        ELSE Done(rq,
                  JsonResp(200, {<<"logout_url",
                                   LogoutUrl(Get(data, "return_to", Str("")))>>}),
                  "none", <<>>)

Logout(r) ==
    /\ req[r].pc = "idle"
    /\ \E inb \in LogoutInbounds :
          req' = [req EXCEPT ![r] =
                     LogoutHandler([@ EXCEPT !.endpoint = "logout", !.inbound = inb])]
    /\ UNCHANGED <<config, lib>>

Next ==
    \E r \in Reqs :
        \/ Health(r)
        \/ TokenBegin(r)
        \/ TokenReply(r)
        \/ UserinfoReply(r)
        \/ Logout(r)

Spec == Init /\ [][Next]_vars

(***************************************************************************)
(* Vocabulary of the properties.                                           *)
(***************************************************************************)
DoneAt(r, ep) == req[r].pc = "done" /\ req[r].endpoint = ep

\* The values stored under key k of a dict (none or one).
Entry(v, k) == {e[2] : e \in {x \in v.m : x[1] = k}}

\* The value a response passes through for key k of payload p: the payload's
\* own value, or `absent` when the payload has none.
PassedThrough(p, k, absent) == IF Entry(p, k) = {} THEN {absent} ELSE Entry(p, k)

RequiredFields == {"code", "code_verifier", "redirect_uri"}
TokenFields == {"access_token", "token_type", "expires_in", "id_token", "user_info"}

\* A JSON object in which some required field is missing or empty.
LacksRequiredField(p) ==
    /\ p.kind = "dict"
    /\ \E k \in RequiredFields : Entry(p, k) \subseteq {Str(""), None}

\* A request that carries a JSON object with all three fields non-empty.
WellFormed(inb) ==
    /\ inb.json_mime
    /\ inb.payload.kind = "dict"
    /\ \A k \in RequiredFields :
          Entry(inb.payload, k) # {} /\ Entry(inb.payload, k) \cap {Str(""), None} = {}

\* The body is absent (or not sent as JSON), or cannot be parsed.
NoJsonBody(inb) == ~inb.json_mime \/ inb.payload = Malformed

\* The token POST failed: transport error, or an error status from the provider.
PostFailed(rep) == rep.net = "error" \/ (rep.net = "ok" /\ rep.status \in 400..599)

\* The token POST succeeded with an access token.
PostGaveToken(rep) ==
    /\ rep.net = "ok"
    /\ rep.status \in 200..299
    /\ rep.payload.kind = "dict"
    /\ Entry(rep.payload, "access_token") # {}

\* The userinfo lookup failed: transport error, non-200, unparseable or
\* non-mapping body.
LookupFailed(rep) ==
    \/ rep.net = "error"
    \/ rep.net = "ok" /\ (rep.status # 200 \/ rep.payload.kind # "dict")

\* The client secret occurs somewhere in value v.
RECURSIVE Mentions(_)
Mentions(v) ==
    \/ v = AUTH0_CLIENT_SECRET
    \/ v.s = AUTH0_CLIENT_SECRET.s
    \/ \E e \in v.m : Mentions(e[2])

CallsOf(r, method) == {i \in DOMAIN req[r].calls : req[r].calls[i].method = method}

(***************************************************************************)
(* C1.  Every JSON object sent to /api/auth/token in which one of code,    *)
(* code_verifier, redirect_uri is missing or empty ({} included) is        *)
(* answered 400 with `required` listing exactly the three names.           *)
(***************************************************************************)
C1_MissingFieldAnswered400WithRequired ==
    \A r \in Reqs :
        (DoneAt(r, "token") /\ req[r].inbound.json_mime
            /\ LacksRequiredField(req[r].inbound.payload))
        => /\ req[r].resp.status = 400
           /\ Entry(req[r].resp.json, "required") = {RequiredList}

(***************************************************************************)
(* C2.  A request to /api/auth/token whose body is absent or cannot be     *)
(* parsed as JSON is answered 400 with the "no JSON" error, never 5xx.     *)
(***************************************************************************)
C2_NoJsonBodyAnswered400 ==
    \A r \in Reqs :
        (DoneAt(r, "token") /\ NoJsonBody(req[r].inbound))
        => /\ req[r].resp.status = 400
           /\ Entry(req[r].resp.json, "error") = {ErrNoJson}

(***************************************************************************)
(* C3.  When the token POST succeeded with an access token, any failure of *)
(* the userinfo lookup (transport error, non-200, malformed or non-mapping *)
(* body) still yields 200, and user_info is the empty mapping.             *)
(***************************************************************************)
C3_FailedLookupLeavesUserInfoEmpty ==
    \A r \in Reqs :
        (DoneAt(r, "token") /\ PostGaveToken(req[r].token_reply)
            /\ LookupFailed(req[r].userinfo_reply))
        => /\ req[r].resp.status = 200
           /\ Entry(req[r].resp.json, "user_info") = {Dict({})}

(***************************************************************************)
(* C4.  When the token POST fails (error status from the provider, or a    *)
(* transport error), the handler answers 500 with `error` and with         *)
(* `details` carrying the transport/provider diagnostic, none of the token *)
(* fields, and makes no userinfo call.                                     *)
(***************************************************************************)
C4_FailedPostAnswered500 ==
    \A r \in Reqs :
        (req[r].endpoint = "token" /\ PostFailed(req[r].token_reply))
        => /\ req[r].pc = "done"
           /\ req[r].resp.status = 500
           /\ Entry(req[r].resp.json, "error") # {}
           /\ Entry(req[r].resp.json, "details") =
                 {IF req[r].token_reply.net = "error"
                  THEN ConnErrorText(AUTH0_DOMAIN)
                  ELSE HTTPErrorText(req[r].token_reply.status, TokenUrl)}
           /\ \A k \in TokenFields : Entry(req[r].resp.json, k) = {}
           /\ CallsOf(r, "GET") = {}

C4_Witness ==
    \E r \in Reqs :
        /\ DoneAt(r, "token")
        /\ req[r].token_reply = Reply("ok", 401, ProviderErrorBody)
        /\ req[r].resp.status = 500

(***************************************************************************)
(* C5.  Logout never fails because of its body: a missing body, a          *)
(* malformed body, or a body without return_to is answered 200 with the    *)
(* logout URL that has no returnTo parameter.                              *)
(***************************************************************************)
C5_LogoutLenientAboutBody ==
    \A r \in Reqs :
        (DoneAt(r, "logout")
            /\ \/ NoJsonBody(req[r].inbound)
               \/ /\ req[r].inbound.payload.kind = "dict"
                  /\ Entry(req[r].inbound.payload, "return_to") = {})
        => /\ req[r].resp.status = 200
           /\ Entry(req[r].resp.json, "logout_url") = {LogoutUrl(Str(""))}

C7_ErrorClassesHaveDistinctStatuses ==
    \A r1, r2 \in Reqs :
        (DoneAt(r1, "token") /\ DoneAt(r2, "token")
            /\ req[r1].errclass # "none" /\ req[r2].errclass # "none")
        => /\ Entry(req[r1].resp.json, "error") # {}
           /\ req[r1].errclass # req[r2].errclass
                 => req[r1].resp.status # req[r2].resp.status

(***************************************************************************)
(* C7 amended.  BadRequest maps to status 400; UpstreamError and           *)
(* InternalError both map to status 500 and differ in the `error` text;    *)
(* every error response is a JSON object with an `error` field.            *)
(***************************************************************************)
C7_ErrorClassStatuses ==
    \A r \in Reqs :
        (DoneAt(r, "token") /\ req[r].errclass # "none")
        => /\ req[r].resp.json.kind = "dict"
           /\ Entry(req[r].resp.json, "error") # {}
           /\ req[r].errclass = "BadRequest" => req[r].resp.status = 400
           /\ req[r].errclass = "UpstreamError" =>
                 /\ req[r].resp.status = 500
                 /\ Entry(req[r].resp.json, "error") = {ErrUpstream}
           /\ req[r].errclass = "InternalError" =>
                 /\ req[r].resp.status = 500
                 /\ Entry(req[r].resp.json, "error") = {ErrInternal}

C7_Witness ==
    \E r1, r2 \in Reqs :
        /\ DoneAt(r1, "token") /\ DoneAt(r2, "token")
        /\ req[r1].errclass = "UpstreamError" /\ req[r2].errclass = "InternalError"
        /\ req[r1].resp.status = req[r2].resp.status

(***************************************************************************)
(* C8.  When the token POST succeeds, the 200 response has success: true,  *)
(* its access_token, expires_in and id_token are those of the provider's   *)
(* payload, and token_type is the provider's value, or "Bearer" when the   *)
(* provider omitted it.                                                    *)
(***************************************************************************)
C8_TokenFieldsPassedThrough ==
    \A r \in Reqs :
        LET p == req[r].token_reply.payload
            b == req[r].resp.json
        IN  /\ (DoneAt(r, "token") /\ req[r].token_reply.net = "ok"
                   /\ req[r].token_reply.status \in 200..299 /\ p.kind = "dict")
               => req[r].resp.status = 200
            /\ (DoneAt(r, "token") /\ req[r].resp.status = 200)
               => /\ Entry(b, "success") = {BoolV("true")}
                  /\ \A k \in {"access_token", "expires_in", "id_token"} :
                        Entry(b, k) = PassedThrough(p, k, None)
                  /\ Entry(b, "token_type") = PassedThrough(p, "token_type", Str("Bearer"))

C8_Witness ==
    \E r1, r2 \in Reqs :
        /\ DoneAt(r1, "token") /\ req[r1].resp.status = 200
        /\ Entry(req[r1].token_reply.payload, "token_type") = {}
        /\ Entry(req[r1].resp.json, "token_type") = {Str("Bearer")}
        /\ DoneAt(r2, "token") /\ req[r2].resp.status = 200
        /\ Entry(req[r2].resp.json, "token_type") = {Str("DPoP")}
        /\ Entry(req[r2].resp.json, "access_token") = {Str("at2")}

(***************************************************************************)
(* C9.  Concurrent exchanges do not interfere.  In every interleaving: a   *)
(* step of one invocation changes nothing of any other invocation, nor the *)
(* configuration; two invocations given the same inputs (request body, or  *)
(* two well-formed bodies, and the same provider replies) give the same    *)
(* response; and an invocation's userinfo call and response carry the      *)
(* access token of its own token reply.                                    *)
(***************************************************************************)
C9_SameInputs(r1, r2) ==
    /\ req[r1].endpoint = req[r2].endpoint
    /\ \/ req[r1].inbound = req[r2].inbound
       \/ WellFormed(req[r1].inbound) /\ WellFormed(req[r2].inbound)
    /\ req[r1].token_reply = req[r2].token_reply
    /\ req[r1].userinfo_reply = req[r2].userinfo_reply

C9_OwnInputsOnly ==
    /\ config = [domain |-> AUTH0_DOMAIN, client_id |-> AUTH0_CLIENT_ID,
                 client_secret |-> AUTH0_CLIENT_SECRET]
    /\ \A r1, r2 \in Reqs :
          (req[r1].pc = "done" /\ req[r2].pc = "done" /\ C9_SameInputs(r1, r2))
          => req[r1].resp = req[r2].resp
    /\ \A r \in Reqs :
          LET own == Entry(req[r].token_reply.payload, "access_token")
          IN  /\ \A i \in CallsOf(r, "GET") :
                    req[r].calls[i].auth.m = {<<"0", v>> : v \in own}
              /\ (DoneAt(r, "token") /\ req[r].resp.status = 200)
                 => Entry(req[r].resp.json, "access_token") \subseteq own \cup {None}

C9_Frame ==
    /\ config' = config
    /\ lib' = lib
    /\ \A r \in Reqs :
          req'[r] # req[r] => \A o \in Reqs \ {r} : req'[o] = req[o]

C9_NoInterference == [](C9_OwnInputsOnly) /\ [][C9_Frame]_vars

C9_Witness ==
    \E r1, r2 \in Reqs :
        /\ req[r1].pc = "await_userinfo"
        /\ req[r2].pc = "await_userinfo"
        /\ Entry(req[r1].inbound.payload, "code") # Entry(req[r2].inbound.payload, "code")
        /\ req[r1].token_data # req[r2].token_data

(***************************************************************************)
(* C10.  An exchange makes at most two outbound calls and never repeats    *)
(* one: at most one POST to the token endpoint, only for a validated body  *)
(* (a 400 response means no call was made), and at most one GET to the     *)
(* userinfo endpoint, only after the POST returned a success status and a  *)
(* payload containing access_token.                                        *)
(***************************************************************************)
C10_AtMostTwoSequencedCalls ==
    \A r \in Reqs :
        /\ Len(req[r].calls) <= 2
        /\ Cardinality(CallsOf(r, "POST")) <= 1
        /\ Cardinality(CallsOf(r, "GET")) <= 1
        /\ req[r].resp.status = 400 => req[r].calls = <<>>
        /\ req[r].endpoint # "token" => req[r].calls = <<>>
        /\ req[r].calls # <<>> =>
              /\ req[r].calls[1].method = "POST"
              /\ req[r].calls[1].url = TokenUrl
              /\ WellFormed(req[r].inbound)
        /\ Len(req[r].calls) = 2 =>
              /\ req[r].calls[2].method = "GET"
              /\ req[r].calls[2].url = UserinfoUrl
              /\ PostGaveToken(req[r].token_reply)

C10_Witness ==
    \E r \in Reqs :
        /\ DoneAt(r, "token")
        /\ Len(req[r].calls) = 2
        /\ req[r].userinfo_reply.net = "ok"

====
